---- MODULE Spec2Model ----
(***************************************************************************)
(* The task-queue protocols of the SSL certificate crawler                 *)
(* (ssl-certificates-crawler/domain-based-crawler/src), one state machine  *)
(* per program:                                                            *)
(*   SpecV1  main-v1.py  staging/certs, worker_loop, heartbeat_updater,    *)
(*                       reclaimer_loop, main                              *)
(*   SpecV2  main-v2.py  status/certificates, main with recover_stale_work, *)
(*                       worker_thread, signals and crashes                *)
(*   SpecV3  main-v3.py  status/certs, worker_thread, doctor_thread,       *)
(*                       dashboard_loop                                    *)
(* Every MongoDB call (find_one_and_update, update_one, find, insert_one,  *)
(* count_documents) is one atomic step; the Python between two calls       *)
(* belongs to the step of the call that follows it.                        *)
(*                                                                         *)
(* Time.  The programs store wall-clock timestamps and only ever compare   *)
(* them with the clock (next_attempt_at <= now, last_heartbeat < now - T). *)
(* The model keeps each timestamp relative to the clock: a field written   *)
(* as "now" holds age 0, a field written as "now + d" holds the delay d,   *)
(* and a Tick step lets TICK seconds pass for every field at once.  An age *)
(* stops growing once it is past the threshold it is compared with, so the *)
(* clock itself can run forever.  Nothing forces a step to happen before   *)
(* the clock advances: a thread may be delayed for any length of time.     *)
(***************************************************************************)
EXTENDS Integers, FiniteSets, Sequences, TLC

\* ------------------------------------------------------------------------
\* Bounds of the model
\* ------------------------------------------------------------------------
NumDomains == 1         \* rows of the seed CSV
NumWorkers == 2         \* worker threads (THREAD_COUNT / NUM_THREADS in the code)
NumFps     == 2         \* distinct certificates the crawled hosts can serve
MaxClaims  == 4         \* claims of one task the model follows
MaxAttemptCount == 4   \* largest attempt_count the main-v3 model follows
MaxStops   == 2         \* crashes and signals of main-v2 the model follows
NumCertDomains == 2     \* domains whose certificates save_certificate_safe is called with
MaxSaves   == 2         \* calls of save_certificate_safe with one (domain, fingerprint)
NumV2Domains == 2       \* rows of the CSV file of main-v2.py
MaxEnded == 4           \* worker threads of main-v3.py that end during a run
MaxRuns == 2            \* starts of main-v3.py on one database
NumV3RunDomains == 2    \* tasks of the database main-v3.py is restarted on
MaxImports == 2         \* calls of import_csv_into_staging in the end-to-end run
MaxBackoffN == 6        \* largest attempts value compute_backoff_seconds is evaluated at

\* ------------------------------------------------------------------------
\* main-v1.py: configuration
\* ------------------------------------------------------------------------
HEARTBEAT_INTERVAL == 20
RECLAIM_TIMEOUT    == 60
MAX_ATTEMPTS       == 3
INITIAL_BACKOFF    == 10
MAX_BACKOFF        == 20

\* One step of the clock, in seconds.
TICK == HEARTBEAT_INTERVAL

\* The settings of the end-to-end run: INITIAL_BACKOFF of 1 second and a
\* MAX_BACKOFF that no retry reaches.
E2E_INITIAL_BACKOFF == 1
E2E_MAX_BACKOFF     == 60

\* ------------------------------------------------------------------------
\* main-v3.py: CONFIG
\* ------------------------------------------------------------------------
V3_MAX_RETRIES     == 3
V3_STALE_THRESHOLD == 60

V3_TICK == V3_STALE_THRESHOLD + 1

\* main-v2.py CONFIG
V2_MAX_RETRIES == 3
V2_STALE_THRESHOLD == 300
V2_TICK == V2_STALE_THRESHOLD + 1

Domains == 1..NumDomains        \* _id order = insertion order of the CSV rows
Workers == 1..NumWorkers
Fps     == 1..NumFps

NoWorker == 0                   \* worker_id: None / $unset
NoTime   == -1                  \* last_heartbeat: None / $unset

Min(a, b) == IF a <= b THEN a ELSE b

RECURSIVE Pow2(_)
Pow2(n) == IF n = 0 THEN 1 ELSE 2 * Pow2(n - 1)

VARIABLES
    staging,        \* v1: staging collection, _id -> task document
    certs,          \* v1: certs collection, set of [domain, fingerprint_sha256]
    SHUTDOWN,       \* v1: the global shutdown Event
    pc,             \* v1: where each worker_loop thread stands
    task,           \* v1: worker_loop's local `task` (its _id), 0 when None
    fresh,          \* v1: worker_loop's local `fresh` (the attempts it read)
    rc_pc,          \* v1: where reclaimer_loop stands
    rc_docs,        \* v1: reclaimer_loop's cursor `docs`: set of <<_id, attempts>>
    main_pc,        \* v1: where main's monitor loop stands
    main_pending,   \* v1: main's local `pending`
    nclaims,        \* v1 (history): successful claim_one_task calls per task
    nfetched,       \* v1 (history): some fetch of the task returned a certificate
    reclaimed       \* v1 (history): workers whose current claim the reclaimer took away

VARIABLES
    status_coll,    \* v3: status collection, _id -> task document
    certs_coll,     \* v3: certificates collection, domain -> number of records
    shutdown_event, \* v3: the global shutdown Event
    w3_pc,          \* v3: where each worker_thread stands
    w3_task,        \* v3: worker_thread's local `task` (its _id), 0 when None
    w3_attempts,    \* v3: worker_thread's local `attempts`
    doctor_pc,      \* v3: where doctor_thread stands
    doctor_stale,   \* v3: doctor_thread's local list `stale` (the _ids)
    dash_pc,        \* v3: where main / dashboard_loop stands
    dash_pending,   \* v3: dashboard_loop's stats['pending'] = 0
    interrupted,    \* v3 (history): SIGINT was delivered
    dup_seen        \* v3 (history): domains whose insert_one hit DuplicateKeyError

v3worker == <<w3_pc, w3_task, w3_attempts>>
v3doctor == <<doctor_pc, doctor_stale>>
v3dash   == <<dash_pc, dash_pending>>
v3hist   == <<interrupted, dup_seen>>
v3vars   == <<status_coll, certs_coll, shutdown_event, v3worker, v3doctor,
             v3dash, v3hist>>

v1worker == <<pc, task, fresh>>
v1rc     == <<rc_pc, rc_docs>>
v1main   == <<main_pc, main_pending>>
v1hist   == <<nclaims, nfetched, reclaimed>>
v1vars   == <<staging, certs, SHUTDOWN, v1worker, v1rc, v1main, v1hist>>

\* main-v2.py: the two collections, the shutdown flag, each worker thread's
\* position, claimed domain and claimed attempt_count, whether the process
\* is running, and the number of crashes and signals so far.
VARIABLES status_collection, certificates, shutdown_requested,
          v2_pc, v2_task, v2_attempt, proc, stops

v2worker == <<v2_pc, v2_task, v2_attempt>>
v2vars   == <<status_collection, certificates, shutdown_requested, v2worker,
              proc, stops>>

\* main-v1.py, save_certificate_safe on its own: a certs collection and the
\* number of calls made so far with each (domain, fingerprint).
VARIABLES cs_certs, cs_calls

csvars == <<cs_certs, cs_calls>>

\* main-v1.py run end to end on a seed list of its own with short backoffs:
\* the staging and certs collections, each worker's position, claimed task,
\* re-read attempts and fetched fingerprint, the number of imports, the number
\* of tasks the last import found changed since their seeding, and per task
\* the number of claims and the backoff delays written so far.
VARIABLES e_staging, e_certs, e_pc, e_task, e_fresh, e_imports, e_touched,
          e_claims, e_delays
\* worker_loop's local `parsed` after the parsers ran: "meta" for a parser's
\* result, "none" for None, "unset" outside an attempt.
VARIABLE e_parsed

e2eworker == <<e_pc, e_task, e_fresh, e_parsed>>
e2ehist   == <<e_imports, e_touched, e_claims, e_delays>>
e2evars   == <<e_staging, e_certs, e2eworker, e2ehist>>

\* main-v3.py killed and started again on the same database: the status
\* collection, each worker thread's position, claimed task and local attempts
\* counter, and the number of starts of the program.
VARIABLES r_status_coll, r_pc, r_task, r_attempts, r_runs

r3worker == <<r_pc, r_task, r_attempts>>
r3vars   == <<r_status_coll, r3worker, r_runs>>

\* main-v3.py's threads: main's position and loop index i, the live
\* Worker-i and Rescue threads, the number of worker threads that have ended,
\* and doctor_thread's position and its local `missing`.
VARIABLES t_main_pc, t_i, t_workers, t_rescues, t_ended, t_doctor_pc, t_missing

thvars == <<t_main_pc, t_i, t_workers, t_rescues, t_ended, t_doctor_pc, t_missing>>

notV1  == <<v2vars, v3vars, csvars, e2evars, r3vars, thvars>>
notV2  == <<v1vars, v3vars, csvars, e2evars, r3vars, thvars>>
notV3  == <<v1vars, v2vars, csvars, e2evars, r3vars, thvars>>
notCs  == <<v1vars, v2vars, v3vars, e2evars, r3vars, thvars>>
notE2E == <<v1vars, v2vars, v3vars, csvars, r3vars, thvars>>
notR3  == <<v1vars, v2vars, v3vars, csvars, e2evars, thvars>>
notTh  == <<v1vars, v2vars, v3vars, csvars, e2evars, r3vars>>

vars == <<v1vars, v2vars, v3vars, csvars, e2evars, r3vars, thvars>>

\* ------------------------------------------------------------------------
\* main-v1.py: pure helpers
\* ------------------------------------------------------------------------
\* A backoff that doubles without the MAX_BACKOFF cap.
MutComputeBackoffSeconds(attempts) ==
    INITIAL_BACKOFF * Pow2(attempts)

\* int(min(MAX_BACKOFF, INITIAL_BACKOFF * (2 ** attempts)))
compute_backoff_seconds(attempts) ==
    Min(MAX_BACKOFF, INITIAL_BACKOFF * Pow2(attempts))

\* The document import_csv_into_staging inserts for a row.
SeedDoc ==
    [status |-> "pending", attempts |-> 0, next_attempt_at |-> 0,
     worker_id |-> NoWorker, last_heartbeat |-> NoTime]

\* A filter_q without the next_attempt_at condition.
MutClaimFilterNoBackoff(doc) ==
    doc.status = "pending"

\* A filter_q that does not test status for pending alone.
MutClaimFilter(doc) ==
    doc.status \in {"pending", "in-progress"} /\ doc.next_attempt_at <= 0

\* claim_one_task's filter_q: status pending and next_attempt_at <= now.
ClaimFilter(doc) ==
    doc.status = "pending" /\ doc.next_attempt_at <= 0

\* find_one_and_update(filter_q, ..., sort=[("_id", 1)]): the first match, or 0.
ClaimPick(coll) ==
    IF \E d \in Domains : ClaimFilter(coll[d])
    THEN CHOOSE d \in Domains :
            /\ ClaimFilter(coll[d])
            /\ \A e \in Domains : ClaimFilter(coll[e]) => d <= e
    ELSE 0

\* claim_one_task's update_q.
ClaimUpdate(doc, w) ==
    [doc EXCEPT !.status = "in-progress", !.worker_id = w, !.last_heartbeat = 0]

\* reclaimer_loop's stale_filter: in-progress and last_heartbeat < now - RECLAIM_TIMEOUT.
StaleFilter(doc) ==
    /\ doc.status = "in-progress"
    /\ doc.last_heartbeat # NoTime
    /\ doc.last_heartbeat > RECLAIM_TIMEOUT

\* mark_task_done's update: matched by _id alone.
DoneUpdate(doc) ==
    [doc EXCEPT !.status = "done", !.worker_id = NoWorker, !.last_heartbeat = NoTime]

\* mark_task_failed(task_doc): attempts is computed from the document passed in.
FailedUpdate(doc, read_attempts) ==
    LET attempts == read_attempts + 1 IN
    IF attempts >= MAX_ATTEMPTS
    THEN [doc EXCEPT !.status = "failed", !.attempts = attempts,
                     !.worker_id = NoWorker, !.last_heartbeat = NoTime]
    ELSE [doc EXCEPT !.status = "pending", !.attempts = attempts,
                     !.next_attempt_at = compute_backoff_seconds(attempts),
                     !.worker_id = NoWorker, !.last_heartbeat = NoTime]

\* A heartbeat write that selects the task by _id alone.
MutHeartbeatUpdate(doc, w) ==
    [doc EXCEPT !.last_heartbeat = 0]

\* heartbeat_updater's update_one({"_id": task_id, "worker_id": worker_id}, ...).
HeartbeatUpdate(doc, w) ==
    IF doc.worker_id = w THEN [doc EXCEPT !.last_heartbeat = 0] ELSE doc

\* A reclaim that leaves the lease fields on the document.
MutReclaimUpdate(doc, read_attempts) ==
    LET attempts == read_attempts + 1 IN
    IF attempts >= MAX_ATTEMPTS
    THEN [doc EXCEPT !.status = "failed", !.attempts = attempts]
    ELSE [doc EXCEPT !.status = "pending", !.next_attempt_at = 0,
                     !.attempts = doc.attempts + 1]

\* reclaimer_loop's update of one stale document d it read with `read_attempts`.
ReclaimUpdate(doc, read_attempts) ==
    LET attempts == read_attempts + 1 IN
    IF attempts >= MAX_ATTEMPTS
    THEN [doc EXCEPT !.status = "failed", !.attempts = attempts,
                     !.worker_id = NoWorker, !.last_heartbeat = NoTime]
    ELSE [doc EXCEPT !.status = "pending", !.next_attempt_at = 0,
                     !.attempts = doc.attempts + 1,
                     !.worker_id = NoWorker, !.last_heartbeat = NoTime]

\* save_certificate_safe: upsert on {fingerprint_sha256, domain}; the insert of a
\* new record fails on the unique index on fingerprint_sha256 when another
\* domain's record has the fingerprint, and the DuplicateKeyError is swallowed.
SaveCertificate(coll, domain, fp) ==
    IF \E r \in coll : r.fingerprint_sha256 = fp
    THEN coll
    ELSE coll \cup {[domain |-> domain, fingerprint_sha256 |-> fp]}

\* The clock advances by TICK: ages grow (until past RECLAIM_TIMEOUT), delays shrink.
AdvanceDoc(doc) ==
    [doc EXCEPT
        !.last_heartbeat = IF @ = NoTime \/ @ > RECLAIM_TIMEOUT THEN @ ELSE @ + TICK,
        !.next_attempt_at = IF @ > TICK THEN @ - TICK ELSE 0]

\* ------------------------------------------------------------------------
\* main-v1.py: initial state (main has created the indexes, imported the CSV
\* into the empty staging collection and started the reclaimer and workers)
\* ------------------------------------------------------------------------
V1Init ==
    /\ staging = [d \in Domains |-> SeedDoc]
    /\ certs = {}
    /\ SHUTDOWN = FALSE
    /\ pc = [w \in Workers |-> "loop"]
    /\ task = [w \in Workers |-> 0]
    /\ fresh = [w \in Workers |-> 0]
    /\ rc_pc = "scan"
    /\ rc_docs = {}
    /\ main_pc = "count_pending"
    /\ main_pending = FALSE
    /\ nclaims = [d \in Domains |-> 0]
    /\ nfetched = [d \in Domains |-> FALSE]
    /\ reclaimed = {}

\* ------------------------------------------------------------------------
\* main-v1.py: worker_loop
\* ------------------------------------------------------------------------
\* A loop head that does not look at SHUTDOWN.
MutWLoop(w) ==
    /\ pc[w] = "loop"
    /\ pc' = [pc EXCEPT ![w] = "claim"]
    /\ UNCHANGED <<staging, certs, SHUTDOWN, task, fresh, v1rc, v1main, v1hist,
                   notV1>>

\* `while not SHUTDOWN.is_set()`
WLoop(w) ==
    /\ pc[w] = "loop"
    /\ pc' = [pc EXCEPT ![w] = IF SHUTDOWN THEN "exited" ELSE "claim"]
    /\ UNCHANGED <<staging, certs, SHUTDOWN, task, fresh, v1rc, v1main, v1hist,
                   notV1>>

\* task = claim_one_task(worker_name); `if not task: sleep; continue`;
\* otherwise the heartbeat thread is started.
WClaim(w) ==
    /\ pc[w] = "claim"
    /\ LET d == ClaimPick(staging) IN
       IF d = 0
       THEN /\ pc' = [pc EXCEPT ![w] = "sleep"]
            /\ UNCHANGED <<staging, task, nclaims>>
       ELSE /\ nclaims[d] < MaxClaims
            /\ staging' = [staging EXCEPT ![d] = ClaimUpdate(@, w)]
            /\ task' = [task EXCEPT ![w] = d]
            /\ nclaims' = [nclaims EXCEPT ![d] = @ + 1]
            /\ pc' = [pc EXCEPT ![w] = "claimed"]
    /\ UNCHANGED <<certs, SHUTDOWN, fresh, v1rc, v1main, nfetched, reclaimed,
                   notV1>>

\* time.sleep(WORKER_POLL_SLEEP); continue
WWake(w) ==
    /\ pc[w] = "sleep"
    /\ pc' = [pc EXCEPT ![w] = "loop"]
    /\ UNCHANGED <<staging, certs, SHUTDOWN, task, fresh, v1rc, v1main, v1hist,
                   notV1>>

\* fetch_certificate_from_host returned a certificate (fingerprint fp); the
\* parsers ran (their result, None included, is stored as meta);
\* save_certificate_safe.
WSave(w) ==
    /\ pc[w] = "claimed"
    /\ \E fp \in Fps : certs' = SaveCertificate(certs, task[w], fp)
    /\ nfetched' = [nfetched EXCEPT ![task[w]] = TRUE]
    /\ pc' = [pc EXCEPT ![w] = "saved"]
    /\ UNCHANGED <<staging, SHUTDOWN, task, fresh, v1rc, v1main, nclaims, reclaimed,
                   notV1>>

\* mark_task_done(task, fp); finally: the heartbeat thread is stopped.
WDone(w) ==
    /\ pc[w] = "saved"
    /\ staging' = [staging EXCEPT ![task[w]] = DoneUpdate(@)]
    /\ pc' = [pc EXCEPT ![w] = "loop"]
    /\ task' = [task EXCEPT ![w] = 0]
    /\ reclaimed' = reclaimed \ {w}
    /\ UNCHANGED <<certs, SHUTDOWN, fresh, v1rc, v1main, nclaims, nfetched,
                   notV1>>

\* The fetch raised: fresh = staging.find_one({"_id": task["_id"]})
WFresh(w) ==
    /\ pc[w] = "claimed"
    /\ fresh' = [fresh EXCEPT ![w] = staging[task[w]].attempts]
    /\ pc' = [pc EXCEPT ![w] = "failing"]
    /\ UNCHANGED <<staging, certs, SHUTDOWN, task, v1rc, v1main, v1hist,
                   notV1>>

\* mark_task_failed(fresh, err); finally: the heartbeat thread is stopped.
WFailed(w) ==
    /\ pc[w] = "failing"
    /\ staging' = [staging EXCEPT ![task[w]] = FailedUpdate(@, fresh[w])]
    /\ pc' = [pc EXCEPT ![w] = "loop"]
    /\ task' = [task EXCEPT ![w] = 0]
    /\ fresh' = [fresh EXCEPT ![w] = 0]
    /\ reclaimed' = reclaimed \ {w}
    /\ UNCHANGED <<certs, SHUTDOWN, v1rc, v1main, nclaims, nfetched,
                   notV1>>

\* heartbeat_updater, alive from the claim until hb_stop.set().
WHeartbeat(w) ==
    /\ pc[w] \in {"claimed", "saved", "failing"}
    /\ staging' = [staging EXCEPT ![task[w]] = HeartbeatUpdate(@, w)]
    /\ UNCHANGED <<certs, SHUTDOWN, v1worker, v1rc, v1main, v1hist,
                   notV1>>

\* The worker stops for good while it holds a claim (its process is killed).
WDie(w) ==
    /\ pc[w] \in {"claimed", "saved", "failing"}
    /\ pc' = [pc EXCEPT ![w] = "dead"]
    /\ UNCHANGED <<staging, certs, SHUTDOWN, task, fresh, v1rc, v1main, v1hist,
                   notV1>>

\* ------------------------------------------------------------------------
\* main-v1.py: reclaimer_loop
\* ------------------------------------------------------------------------
\* `while not SHUTDOWN.is_set()`, then count_documents/find of stale_filter
\* with the projection {_id, attempts, domain}.
RcScan ==
    /\ rc_pc = "scan"
    /\ IF SHUTDOWN
       THEN /\ rc_pc' = "exited"
            /\ UNCHANGED rc_docs
       ELSE LET docs == {<<d, staging[d].attempts>> :
                            d \in {e \in Domains : StaleFilter(staging[e])}}
            IN /\ rc_docs' = docs
               /\ rc_pc' = IF docs = {} THEN "scan" ELSE "update"
    /\ UNCHANGED <<staging, certs, SHUTDOWN, v1worker, v1main, v1hist,
                   notV1>>

\* One iteration of `for d in docs`: update_one({"_id": d["_id"]}, ...).
RcUpdate ==
    /\ rc_pc = "update"
    /\ \E d \in rc_docs :
        /\ staging' = [staging EXCEPT ![d[1]] = ReclaimUpdate(@, d[2])]
        /\ rc_docs' = rc_docs \ {d}
        /\ reclaimed' = reclaimed \cup
              {w \in Workers : /\ staging[d[1]].status = "in-progress"
                               /\ staging[d[1]].worker_id = w}
    /\ rc_pc' = IF rc_docs' = {} THEN "scan" ELSE "update"
    /\ UNCHANGED <<certs, SHUTDOWN, v1worker, v1main, nclaims, nfetched,
                   notV1>>

\* ------------------------------------------------------------------------
\* main-v1.py: main's monitor loop, the signal handler, the clock
\* ------------------------------------------------------------------------
\* `while not SHUTDOWN.is_set()`: pending = count_documents(status pending)
MainCountPending ==
    /\ main_pc = "count_pending"
    /\ IF SHUTDOWN
       THEN /\ main_pc' = "join"
            /\ UNCHANGED main_pending
       ELSE /\ main_pending' = (\A d \in Domains : staging[d].status # "pending")
            /\ main_pc' = "count_working"
    /\ UNCHANGED <<staging, certs, SHUTDOWN, v1worker, v1rc, v1hist,
                   notV1>>

\* working = count_documents(status in-progress); `if pending == 0 and working == 0`
MainCountWorking ==
    /\ main_pc = "count_working"
    /\ IF main_pending /\ \A d \in Domains : staging[d].status # "in-progress"
       THEN /\ SHUTDOWN' = TRUE
            /\ main_pc' = "join"
       ELSE /\ main_pc' = "count_pending"
            /\ UNCHANGED SHUTDOWN
    /\ main_pending' = FALSE
    /\ UNCHANGED <<staging, certs, v1worker, v1rc, v1hist,
                   notV1>>

\* Leaving `with ThreadPoolExecutor`: every worker has returned; the daemon
\* reclaimer ends with the process.
MainJoin ==
    /\ main_pc = "join"
    /\ \A w \in Workers : pc[w] \in {"exited", "dead"}
    /\ main_pc' = "exited"
    /\ rc_pc' = "exited"
    /\ rc_docs' = {}
    /\ UNCHANGED <<staging, certs, SHUTDOWN, v1worker, main_pending, v1hist,
                   notV1>>

\* SIGINT / SIGTERM: _handler sets SHUTDOWN.
Signal ==
    /\ ~SHUTDOWN
    /\ SHUTDOWN' = TRUE
    /\ UNCHANGED <<staging, certs, v1worker, v1rc, v1main, v1hist,
                   notV1>>

\* TICK seconds pass.
V1Tick ==
    /\ staging' = [d \in Domains |-> AdvanceDoc(staging[d])]
    /\ UNCHANGED <<certs, SHUTDOWN, v1worker, v1rc, v1main, v1hist,
                   notV1>>

V1Next ==
    \/ \E w \in Workers : WLoop(w)
    \/ \E w \in Workers : WClaim(w)
    \/ \E w \in Workers : WWake(w)
    \/ \E w \in Workers : WSave(w)
    \/ \E w \in Workers : WDone(w)
    \/ \E w \in Workers : WFresh(w)
    \/ \E w \in Workers : WFailed(w)
    \/ \E w \in Workers : WHeartbeat(w)
    \/ \E w \in Workers : WDie(w)
    \/ RcScan
    \/ RcUpdate
    \/ MainCountPending
    \/ MainCountWorking
    \/ MainJoin
    \/ Signal
    \/ V1Tick

\* ------------------------------------------------------------------------
\* main-v3.py: pure helpers
\* ------------------------------------------------------------------------
\* The document load_csv_if_empty inserts for a row.
V3SeedDoc ==
    [status |-> "pending", attempt_count |-> 0, worker_id |-> NoWorker,
     last_heartbeat |-> NoTime]

\* worker_thread's find_one_and_update({"status": "pending"}, ...,
\* sort=[("attempt_count", ASCENDING)]): the matches it may return (the order
\* among equal attempt_count is the store's).
V3ClaimCandidates(coll) ==
    {d \in Domains :
        /\ coll[d].status = "pending"
        /\ \A e \in Domains :
              coll[e].status = "pending" => coll[d].attempt_count <= coll[e].attempt_count}

V3ClaimUpdate(doc, w) ==
    [doc EXCEPT !.status = "processing", !.worker_id = w, !.last_heartbeat = 0]

\* update_one({"_id": task["_id"]}, {"$set": {"last_heartbeat": now}})
V3HeartbeatUpdate(doc) ==
    [doc EXCEPT !.last_heartbeat = 0]

\* insert_one into a collection without the unique index: every insert adds a record.
MutV3InsertOne(coll, d) ==
    [coll EXCEPT ![d] = @ + 1]

\* certs_coll.insert_one(parsed_data) under the unique index on domain:
\* a second record for the domain raises DuplicateKeyError, which is passed.
V3InsertOne(coll, d) ==
    IF coll[d] = 0 THEN [coll EXCEPT ![d] = 1] ELSE coll

\* update_one({"_id": task["_id"]}, {"$set": {"status": "completed", ...}})
V3CompletedUpdate(doc) ==
    [doc EXCEPT !.status = "completed"]

\* Failure handling: `attempts` is the worker's local counter, already
\* incremented; retry while attempts < MAX_RETRIES, else permanent failure.
V3FailureUpdate(doc, attempts) ==
    IF attempts < V3_MAX_RETRIES
    THEN [doc EXCEPT !.status = "pending", !.attempt_count = attempts,
                     !.worker_id = NoWorker]
    ELSE [doc EXCEPT !.status = "failed", !.attempt_count = attempts]

\* doctor_thread's find filter: processing and last_heartbeat < now - STALE_THRESHOLD.
V3StaleFilter(doc) ==
    /\ doc.status = "processing"
    /\ doc.last_heartbeat # NoTime
    /\ doc.last_heartbeat > V3_STALE_THRESHOLD

\* doctor_thread's update_one({"_id": task["_id"]}, ...)
V3DoctorUpdate(doc) ==
    [doc EXCEPT !.status = "pending", !.worker_id = NoWorker]

V3AdvanceDoc(doc) ==
    [doc EXCEPT
        !.last_heartbeat = IF @ = NoTime \/ @ > V3_STALE_THRESHOLD THEN @ ELSE @ + V3_TICK]

\* ------------------------------------------------------------------------
\* main-v3.py: initial state (main has run init_db and load_csv_if_empty on an
\* empty store and started doctor_thread and the worker threads)
\* ------------------------------------------------------------------------
V3Init ==
    /\ status_coll = [d \in Domains |-> V3SeedDoc]
    /\ certs_coll = [d \in Domains |-> 0]
    /\ shutdown_event = FALSE
    /\ w3_pc = [w \in Workers |-> "loop"]
    /\ w3_task = [w \in Workers |-> 0]
    /\ w3_attempts = [w \in Workers |-> 0]
    /\ doctor_pc = "scan"
    /\ doctor_stale = {}
    /\ dash_pc = "loop"
    /\ dash_pending = FALSE
    /\ interrupted = FALSE
    /\ dup_seen = {}

\* ------------------------------------------------------------------------
\* main-v3.py: worker_thread
\* ------------------------------------------------------------------------
\* `while not shutdown_event.is_set()`
W3Loop(w) ==
    /\ w3_pc[w] = "loop"
    /\ w3_pc' = [w3_pc EXCEPT ![w] = IF shutdown_event THEN "exited" ELSE "claim"]
    /\ UNCHANGED <<status_coll, certs_coll, shutdown_event, w3_task, w3_attempts,
                   v3doctor, v3dash, v3hist, notV3>>

\* task = status_coll.find_one_and_update(...); `if not task: sleep(2); continue`;
\* attempts = task['attempt_count']
W3Claim(w) ==
    /\ w3_pc[w] = "claim"
    /\ IF V3ClaimCandidates(status_coll) = {}
       THEN /\ w3_pc' = [w3_pc EXCEPT ![w] = "loop"]
            /\ UNCHANGED <<status_coll, w3_task, w3_attempts>>
       ELSE \E d \in V3ClaimCandidates(status_coll) :
            /\ status_coll' = [status_coll EXCEPT ![d] = V3ClaimUpdate(@, w)]
            /\ w3_task' = [w3_task EXCEPT ![w] = d]
            /\ w3_attempts' = [w3_attempts EXCEPT ![w] = status_coll[d].attempt_count]
            /\ w3_pc' = [w3_pc EXCEPT ![w] = "claimed"]
    /\ UNCHANGED <<certs_coll, shutdown_event, v3doctor, v3dash, v3hist, notV3>>

\* The heartbeat write before get_pem_from_domain.
W3HeartbeatFetch(w) ==
    /\ w3_pc[w] = "claimed"
    /\ status_coll' = [status_coll EXCEPT ![w3_task[w]] = V3HeartbeatUpdate(@)]
    /\ w3_pc' = [w3_pc EXCEPT ![w] = "fetching"]
    /\ UNCHANGED <<certs_coll, shutdown_event, w3_task, w3_attempts, v3doctor,
                   v3dash, v3hist, notV3>>

\* get_pem_from_domain returned a certificate: the heartbeat write before
\* parse_with_zcertificate.
W3HeartbeatParse(w) ==
    /\ w3_pc[w] = "fetching"
    /\ status_coll' = [status_coll EXCEPT ![w3_task[w]] = V3HeartbeatUpdate(@)]
    /\ w3_pc' = [w3_pc EXCEPT ![w] = "parsing"]
    /\ UNCHANGED <<certs_coll, shutdown_event, w3_task, w3_attempts, v3doctor,
                   v3dash, v3hist, notV3>>

\* parse_with_zcertificate returned data: certs_coll.insert_one(parsed_data)
W3Insert(w) ==
    /\ w3_pc[w] = "parsing"
    /\ certs_coll' = V3InsertOne(certs_coll, w3_task[w])
    /\ dup_seen' = IF certs_coll[w3_task[w]] > 0 THEN dup_seen \cup {w3_task[w]}
                   ELSE dup_seen
    /\ w3_pc' = [w3_pc EXCEPT ![w] = "inserted"]
    /\ UNCHANGED <<status_coll, shutdown_event, w3_task, w3_attempts, v3doctor,
                   v3dash, interrupted, notV3>>

\* The update to status completed; continue
W3Complete(w) ==
    /\ w3_pc[w] = "inserted"
    /\ status_coll' = [status_coll EXCEPT ![w3_task[w]] = V3CompletedUpdate(@)]
    /\ w3_pc' = [w3_pc EXCEPT ![w] = "loop"]
    /\ w3_task' = [w3_task EXCEPT ![w] = 0]
    /\ w3_attempts' = [w3_attempts EXCEPT ![w] = 0]
    /\ UNCHANGED <<certs_coll, shutdown_event, v3doctor, v3dash, v3hist, notV3>>

\* The fetch or the parse reported an error: attempts += 1, the retry delay is
\* slept, and the task is written back pending or failed.
W3Fail(w) ==
    /\ w3_pc[w] \in {"fetching", "parsing"}
    /\ w3_attempts[w] + 1 <= MaxAttemptCount
    /\ status_coll' = [status_coll EXCEPT
                          ![w3_task[w]] = V3FailureUpdate(@, w3_attempts[w] + 1)]
    /\ w3_pc' = [w3_pc EXCEPT ![w] = "loop"]
    /\ w3_task' = [w3_task EXCEPT ![w] = 0]
    /\ w3_attempts' = [w3_attempts EXCEPT ![w] = 0]
    /\ UNCHANGED <<certs_coll, shutdown_event, v3doctor, v3dash, v3hist, notV3>>

\* ------------------------------------------------------------------------
\* main-v3.py: doctor_thread
\* ------------------------------------------------------------------------
\* `while not shutdown_event.is_set()`; stale = list(status_coll.find(...))
DoctorScan ==
    /\ doctor_pc = "scan"
    /\ IF shutdown_event
       THEN /\ doctor_pc' = "exited"
            /\ UNCHANGED doctor_stale
       ELSE LET stale == {d \in Domains : V3StaleFilter(status_coll[d])}
            IN /\ doctor_stale' = stale
               /\ doctor_pc' = IF stale = {} THEN "scan" ELSE "reset"
    /\ UNCHANGED <<status_coll, certs_coll, shutdown_event, v3worker, v3dash,
                   v3hist, notV3>>

\* One iteration of `for task in stale`.
DoctorReset ==
    /\ doctor_pc = "reset"
    /\ \E d \in doctor_stale :
        /\ status_coll' = [status_coll EXCEPT ![d] = V3DoctorUpdate(@)]
        /\ doctor_stale' = doctor_stale \ {d}
    /\ doctor_pc' = IF doctor_stale' = {} THEN "scan" ELSE "reset"
    /\ UNCHANGED <<certs_coll, shutdown_event, v3worker, v3dash, v3hist, notV3>>

\* ------------------------------------------------------------------------
\* main-v3.py: main (dashboard_loop), SIGINT, the clock
\* ------------------------------------------------------------------------
\* `while not shutdown_event.is_set()`; sleep; stats["pending"] = count_documents
DashCountPending ==
    /\ dash_pc = "loop"
    /\ IF shutdown_event
       THEN /\ dash_pc' = "return"
            /\ UNCHANGED dash_pending
       ELSE /\ dash_pending' = (\A d \in Domains : status_coll[d].status # "pending")
            /\ dash_pc' = "count_processing"
    /\ UNCHANGED <<status_coll, certs_coll, shutdown_event, v3worker, v3doctor,
                   v3hist, notV3>>

\* stats["processing"] = count_documents; `if stats['pending'] == 0 and
\* stats['processing'] == 0: shutdown_event.set(); break`
DashCountProcessing ==
    /\ dash_pc = "count_processing"
    /\ IF dash_pending /\ \A d \in Domains : status_coll[d].status # "processing"
       THEN /\ shutdown_event' = TRUE
            /\ dash_pc' = "return"
       ELSE /\ dash_pc' = "loop"
            /\ UNCHANGED shutdown_event
    /\ dash_pending' = FALSE
    /\ UNCHANGED <<status_coll, certs_coll, v3worker, v3doctor, v3hist, notV3>>

\* dashboard_loop and main return: the interpreter exits and the daemon
\* threads (doctor, workers) end wherever they stand.
V3MainExit ==
    /\ dash_pc = "return"
    /\ dash_pc' = "exited"
    /\ w3_pc' = [w \in Workers |-> IF w3_pc[w] = "exited" THEN "exited" ELSE "killed"]
    /\ doctor_pc' = "exited"
    /\ doctor_stale' = {}
    /\ UNCHANGED <<status_coll, certs_coll, shutdown_event, w3_task, w3_attempts,
                   dash_pending, v3hist, notV3>>

\* SIGINT: the handler sets shutdown_event.
V3Signal ==
    /\ dash_pc # "exited"
    /\ ~interrupted
    /\ shutdown_event' = TRUE
    /\ interrupted' = TRUE
    /\ UNCHANGED <<status_coll, certs_coll, v3worker, v3doctor, v3dash, dup_seen,
                   notV3>>

\* V3_TICK seconds pass.
V3Tick ==
    /\ status_coll' = [d \in Domains |-> V3AdvanceDoc(status_coll[d])]
    /\ UNCHANGED <<certs_coll, shutdown_event, v3worker, v3doctor, v3dash, v3hist,
                   notV3>>

V3Next ==
    \/ \E w \in Workers : W3Loop(w)
    \/ \E w \in Workers : W3Claim(w)
    \/ \E w \in Workers : W3HeartbeatFetch(w)
    \/ \E w \in Workers : W3HeartbeatParse(w)
    \/ \E w \in Workers : W3Insert(w)
    \/ \E w \in Workers : W3Complete(w)
    \/ \E w \in Workers : W3Fail(w)
    \/ DoctorScan
    \/ DoctorReset
    \/ DashCountPending
    \/ DashCountProcessing
    \/ V3MainExit
    \/ V3Signal
    \/ V3Tick

\* ------------------------------------------------------------------------
\* main-v2.py: pure helpers
\* ------------------------------------------------------------------------
\* The domains of the CSV file load_domains_from_csv reads, in the order of
\* their names.
V2Domains == 1..NumV2Domains

\* The document load_domains_from_csv inserts for a row.
V2SeedDoc ==
    [status |-> "pending", attempt_count |-> 0, worker_id |-> NoWorker,
     last_updated |-> 0]

\* A recovery that also starts the attempt count over.
MutV2RecoverUpdate(doc) ==
    IF doc.status = "processing" /\ doc.last_updated > V2_STALE_THRESHOLD
    THEN [doc EXCEPT !.status = "pending", !.worker_id = NoWorker, !.attempt_count = 0]
    ELSE doc

\* recover_stale_work's update_many on one document.
V2RecoverUpdate(doc) ==
    IF doc.status = "processing" /\ doc.last_updated > V2_STALE_THRESHOLD
    THEN [doc EXCEPT !.status = "pending", !.worker_id = NoWorker]
    ELSE doc

\* check_and_initialize_status_table: recover on a non-empty table, load the
\* CSV into an empty one.
V2Initialize(coll) ==
    IF DOMAIN coll # {}
    THEN [d \in DOMAIN coll |-> V2RecoverUpdate(coll[d])]
    ELSE [d \in V2Domains |-> V2SeedDoc]

\* check_completion: pending + processing == 0
check_completion(coll) ==
    \A d \in DOMAIN coll : coll[d].status \notin {"pending", "processing"}

\* claim_work's filter.
V2ClaimFilter(doc) ==
    doc.status = "pending" /\ doc.attempt_count < V2_MAX_RETRIES

\* A claim sorted by domain alone.
MutV2ClaimPick(coll) ==
    LET match == {d \in DOMAIN coll : V2ClaimFilter(coll[d])}
    IN IF match = {} THEN 0
       ELSE CHOOSE d \in match : \A e \in match : d <= e

\* claim_work's sort: attempt_count ascending, then domain ascending.
V2ClaimPick(coll) ==
    LET match == {d \in DOMAIN coll : V2ClaimFilter(coll[d])}
    IN IF match = {} THEN 0
       ELSE CHOOSE d \in match :
              \A e \in match :
                 \/ coll[d].attempt_count < coll[e].attempt_count
                 \/ coll[d].attempt_count = coll[e].attempt_count /\ d <= e

V2ClaimUpdate(doc, w) ==
    [doc EXCEPT !.status = "processing", !.worker_id = w, !.last_updated = 0,
                !.attempt_count = @ + 1]

\* save_certificate_to_mongodb under the unique index on domain.
V2SaveCertificate(coll, d) ==
    IF coll[d] = 0 THEN [coll EXCEPT ![d] = 1] ELSE coll

\* mark_completed: update_one({'domain': domain, 'worker_id': worker_id}, ...)
mark_completed(doc, w) ==
    IF doc.worker_id = w
    THEN [doc EXCEPT !.status = "completed", !.last_updated = 0]
    ELSE doc

\* mark_failed: permanent failure at attempt_count >= MAX_RETRIES, else retry.
mark_failed(doc, w, attempt_count) ==
    IF doc.worker_id # w THEN doc
    ELSE IF attempt_count >= V2_MAX_RETRIES
         THEN [doc EXCEPT !.status = "failed", !.last_updated = 0]
         ELSE [doc EXCEPT !.status = "pending", !.worker_id = NoWorker,
                          !.last_updated = 0]

V2AdvanceDoc(doc) ==
    [doc EXCEPT !.last_updated = IF @ > V2_STALE_THRESHOLD THEN @ ELSE @ + V2_TICK]

\* ------------------------------------------------------------------------
\* main-v2.py: initial state (an empty database, no process running)
\* ------------------------------------------------------------------------
V2Init ==
    /\ status_collection = << >>
    /\ certificates = [d \in V2Domains |-> 0]
    /\ shutdown_requested = FALSE
    /\ v2_pc = [w \in Workers |-> "none"]
    /\ v2_task = [w \in Workers |-> 0]
    /\ v2_attempt = [w \in Workers |-> 0]
    /\ proc = "down"
    /\ stops = 0

\* ------------------------------------------------------------------------
\* main-v2.py: actions
\* ------------------------------------------------------------------------
\* The operator starts the program: main up to the start of the worker
\* threads, or its return when check_completion is true.
V2Start ==
    /\ proc = "down"
    /\ status_collection' = V2Initialize(status_collection)
    /\ shutdown_requested' = FALSE
    /\ v2_task' = [w \in Workers |-> 0]
    /\ v2_attempt' = [w \in Workers |-> 0]
    /\ IF check_completion(status_collection')
       THEN /\ proc' = "down"
            /\ v2_pc' = [w \in Workers |-> "none"]
       ELSE /\ proc' = "running"
            /\ v2_pc' = [w \in Workers |-> "loop"]
    /\ UNCHANGED <<certificates, stops, notV2>>

\* worker_thread: `while not shutdown_requested`
V2Loop(w) ==
    /\ proc = "running"
    /\ v2_pc[w] = "loop"
    /\ v2_pc' = [v2_pc EXCEPT ![w] = IF shutdown_requested THEN "finished" ELSE "claim"]
    /\ UNCHANGED <<status_collection, certificates, shutdown_requested, v2_task,
                   v2_attempt, proc, stops, notV2>>

\* work_item = claim_work(worker_id); `if work_item is None: break`
V2Claim(w) ==
    /\ proc = "running"
    /\ v2_pc[w] = "claim"
    /\ LET d == V2ClaimPick(status_collection) IN
       IF d = 0
       THEN /\ v2_pc' = [v2_pc EXCEPT ![w] = "finished"]
            /\ UNCHANGED <<status_collection, v2_task, v2_attempt>>
       ELSE /\ status_collection' = [status_collection EXCEPT ![d] = V2ClaimUpdate(@, w)]
            /\ v2_task' = [v2_task EXCEPT ![w] = d]
            /\ v2_attempt' = [v2_attempt EXCEPT ![w] = status_collection[d].attempt_count + 1]
            /\ v2_pc' = [v2_pc EXCEPT ![w] = "claimed"]
    /\ UNCHANGED <<certificates, shutdown_requested, proc, stops, notV2>>

\* process_domain succeeds: the certificate is fetched, parsed and saved.
V2Process(w) ==
    /\ proc = "running"
    /\ v2_pc[w] = "claimed"
    /\ certificates' = V2SaveCertificate(certificates, v2_task[w])
    /\ v2_pc' = [v2_pc EXCEPT ![w] = "processed"]
    /\ UNCHANGED <<status_collection, shutdown_requested, v2_task, v2_attempt,
                   proc, stops, notV2>>

\* mark_completed(domain, worker_id)
V2Completed(w) ==
    /\ proc = "running"
    /\ v2_pc[w] = "processed"
    /\ status_collection' = [status_collection EXCEPT
                                ![v2_task[w]] = mark_completed(@, w)]
    /\ v2_pc' = [v2_pc EXCEPT ![w] = "loop"]
    /\ v2_task' = [v2_task EXCEPT ![w] = 0]
    /\ v2_attempt' = [v2_attempt EXCEPT ![w] = 0]
    /\ UNCHANGED <<certificates, shutdown_requested, proc, stops, notV2>>

\* process_domain reports an error: mark_failed(domain, worker_id, error,
\* attempt_count)
V2Failed(w) ==
    /\ proc = "running"
    /\ v2_pc[w] = "claimed"
    /\ status_collection' = [status_collection EXCEPT
                                ![v2_task[w]] = mark_failed(@, w, v2_attempt[w])]
    /\ v2_pc' = [v2_pc EXCEPT ![w] = "loop"]
    /\ v2_task' = [v2_task EXCEPT ![w] = 0]
    /\ v2_attempt' = [v2_attempt EXCEPT ![w] = 0]
    /\ UNCHANGED <<certificates, shutdown_requested, proc, stops, notV2>>

\* main: every thread.join() has returned; main prints the statistics and
\* the process ends.
V2Exit ==
    /\ proc = "running"
    /\ \A w \in Workers : v2_pc[w] = "finished"
    /\ proc' = "down"
    /\ v2_pc' = [w \in Workers |-> "none"]
    /\ UNCHANGED <<status_collection, certificates, shutdown_requested, v2_task,
                   v2_attempt, stops, notV2>>

\* signal_handler: SIGINT or SIGTERM
V2Signal ==
    /\ proc = "running"
    /\ ~shutdown_requested
    /\ stops < MaxStops
    /\ shutdown_requested' = TRUE
    /\ stops' = stops + 1
    /\ UNCHANGED <<status_collection, certificates, v2worker, proc, notV2>>

\* The process is killed or the host fails: every thread ends where it stands.
V2Crash ==
    /\ proc = "running"
    /\ stops < MaxStops
    /\ proc' = "down"
    /\ v2_pc' = [w \in Workers |-> "none"]
    /\ v2_task' = [w \in Workers |-> 0]
    /\ v2_attempt' = [w \in Workers |-> 0]
    /\ stops' = stops + 1
    /\ UNCHANGED <<status_collection, certificates, shutdown_requested, notV2>>

\* V2_TICK seconds pass.
V2Tick ==
    /\ status_collection' = [d \in DOMAIN status_collection |->
                                V2AdvanceDoc(status_collection[d])]
    /\ UNCHANGED <<certificates, shutdown_requested, v2worker, proc, stops, notV2>>

V2Next ==
    \/ V2Start
    \/ \E w \in Workers : V2Loop(w)
    \/ \E w \in Workers : V2Claim(w)
    \/ \E w \in Workers : V2Process(w)
    \/ \E w \in Workers : V2Completed(w)
    \/ \E w \in Workers : V2Failed(w)
    \/ V2Exit
    \/ V2Signal
    \/ V2Crash
    \/ V2Tick

\* ------------------------------------------------------------------------
\* main-v1.py: save_certificate_safe called by any callers in any order
\* ------------------------------------------------------------------------
CertDomains == 1..NumCertDomains

CsInit ==
    /\ cs_certs = {}
    /\ cs_calls = [c \in CertDomains \X Fps |-> 0]

\* One call save_certificate_safe(domain, ...) for a certificate with
\* fingerprint fp; the call returns fp whatever the upsert did.
CsSave(domain, fp) ==
    /\ cs_calls[<<domain, fp>>] < MaxSaves
    /\ cs_certs' = SaveCertificate(cs_certs, domain, fp)
    /\ cs_calls' = [cs_calls EXCEPT ![<<domain, fp>>] = @ + 1]
    /\ UNCHANGED notCs

CsNext ==
    \E domain \in CertDomains, fp \in Fps : CsSave(domain, fp)

\* ------------------------------------------------------------------------
\* main-v1.py end to end: seeding, workers and the clock, every lease
\* finished well within RECLAIM_TIMEOUT (the reclaimer finds nothing stale)
\* ------------------------------------------------------------------------
\* The seed list of the run: a.example (task 1) and b.example (task 2).
RunDomains == {1, 2}

\* An import that rewrites the documents of the rows it reads.
MutImportCsvIntoStaging(coll) ==
    [d \in RunDomains |-> SeedDoc]

\* import_csv_into_staging(csv_path), drop_and_import False: skipped when the
\* collection has documents, otherwise one $setOnInsert upsert per row.
import_csv_into_staging(coll) ==
    IF DOMAIN coll # {}
    THEN coll
    ELSE [d \in RunDomains |-> IF d \in DOMAIN coll THEN coll[d] ELSE SeedDoc]

\* A backoff whose first delay is the initial backoff itself.
MutE2EBackoffSeconds(attempts) ==
    Min(E2E_MAX_BACKOFF, E2E_INITIAL_BACKOFF * Pow2(attempts - 1))

\* compute_backoff_seconds under the settings of the run.
e2e_backoff_seconds(attempts) ==
    Min(E2E_MAX_BACKOFF, E2E_INITIAL_BACKOFF * Pow2(attempts))

\* mark_task_failed(task_doc) under the settings of the run.
E2EFailedUpdate(doc, read_attempts) ==
    LET attempts == read_attempts + 1 IN
    IF attempts >= MAX_ATTEMPTS
    THEN [doc EXCEPT !.status = "failed", !.attempts = attempts,
                     !.worker_id = NoWorker, !.last_heartbeat = NoTime]
    ELSE [doc EXCEPT !.status = "pending", !.attempts = attempts,
                     !.next_attempt_at = e2e_backoff_seconds(attempts),
                     !.worker_id = NoWorker, !.last_heartbeat = NoTime]

\* claim_one_task's find_one_and_update on the run's collection.
E2EClaimPick(coll) ==
    IF \E d \in DOMAIN coll : ClaimFilter(coll[d])
    THEN CHOOSE d \in DOMAIN coll :
            /\ ClaimFilter(coll[d])
            /\ \A x \in DOMAIN coll : ClaimFilter(coll[x]) => d <= x
    ELSE 0

E2EInit ==
    /\ e_staging = << >>
    /\ e_certs = {}
    /\ e_pc = [w \in Workers |-> "none"]
    /\ e_task = [w \in Workers |-> 0]
    /\ e_fresh = [w \in Workers |-> 0]
    /\ e_parsed = [w \in Workers |-> "unset"]
    /\ e_imports = 0
    /\ e_touched = 0
    /\ e_claims = [d \in RunDomains |-> 0]
    /\ e_delays = [d \in RunDomains |-> << >>]

\* main: import_csv_into_staging(CSV_PATH); the first run then starts the
\* workers.  A later run against the same database calls it again.
E2EImport ==
    /\ e_imports < MaxImports
    /\ e_staging' = import_csv_into_staging(e_staging)
    /\ e_imports' = e_imports + 1
    /\ e_touched' = Cardinality({d \in DOMAIN e_staging : e_staging[d] # SeedDoc})
    /\ e_pc' = [w \in Workers |-> IF e_pc[w] = "none" THEN "claim" ELSE e_pc[w]]
    /\ UNCHANGED <<e_certs, e_task, e_fresh, e_parsed, e_claims, e_delays, notE2E>>

\* task = claim_one_task(worker_name); on None the worker sleeps and claims again.
E2EClaim(w) ==
    /\ e_pc[w] = "claim"
    /\ LET d == E2EClaimPick(e_staging) IN
       /\ d # 0
       /\ e_staging' = [e_staging EXCEPT ![d] = ClaimUpdate(@, w)]
       /\ e_task' = [e_task EXCEPT ![w] = d]
       /\ e_claims' = [e_claims EXCEPT ![d] = @ + 1]
       /\ e_pc' = [e_pc EXCEPT ![w] = "claimed"]
    /\ UNCHANGED <<e_certs, e_fresh, e_parsed, e_imports, e_touched, e_delays,
                   notE2E>>

\* The fetch returned a certificate with fingerprint fp; parse_with_zcertificate
\* and, if it gave None and HAVE_CRYPTO, parse_certificate_with_cryptography
\* left `parsed` a result or None; save_certificate_safe(domain, pem, der, parsed).
E2ESave(w) ==
    /\ e_pc[w] = "claimed"
    /\ \E fp \in Fps : e_certs' = SaveCertificate(e_certs, e_task[w], fp)
    /\ \E parsed \in {"meta", "none"} : e_parsed' = [e_parsed EXCEPT ![w] = parsed]
    /\ e_pc' = [e_pc EXCEPT ![w] = "saved"]
    /\ UNCHANGED <<e_staging, e_task, e_fresh, e2ehist, notE2E>>

\* mark_task_done(task, fp)
E2EDone(w) ==
    /\ e_pc[w] = "saved"
    /\ e_staging' = [e_staging EXCEPT ![e_task[w]] = DoneUpdate(@)]
    /\ e_pc' = [e_pc EXCEPT ![w] = "claim"]
    /\ e_task' = [e_task EXCEPT ![w] = 0]
    /\ e_parsed' = [e_parsed EXCEPT ![w] = "unset"]
    /\ UNCHANGED <<e_certs, e_fresh, e2ehist, notE2E>>

\* The fetch or a parser raised: fresh = staging.find_one({"_id": task["_id"]})
E2EFresh(w) ==
    /\ e_pc[w] = "claimed"
    /\ e_fresh' = [e_fresh EXCEPT ![w] = e_staging[e_task[w]].attempts]
    /\ e_pc' = [e_pc EXCEPT ![w] = "failing"]
    /\ UNCHANGED <<e_staging, e_certs, e_task, e_parsed, e2ehist, notE2E>>

\* mark_task_failed(fresh, err)
E2EFailed(w) ==
    /\ e_pc[w] = "failing"
    /\ e_staging' = [e_staging EXCEPT ![e_task[w]] = E2EFailedUpdate(@, e_fresh[w])]
    /\ e_delays' = [e_delays EXCEPT ![e_task[w]] =
                       IF e_staging'[e_task[w]].status = "pending"
                       THEN Append(@, e_staging'[e_task[w]].next_attempt_at)
                       ELSE @]
    /\ e_pc' = [e_pc EXCEPT ![w] = "claim"]
    /\ e_task' = [e_task EXCEPT ![w] = 0]
    /\ e_fresh' = [e_fresh EXCEPT ![w] = 0]
    /\ UNCHANGED <<e_certs, e_parsed, e_imports, e_touched, e_claims, notE2E>>

\* One second passes.
E2ETick ==
    /\ \E d \in DOMAIN e_staging : e_staging[d].next_attempt_at > 0
    /\ e_staging' = [d \in DOMAIN e_staging |->
                        [e_staging[d] EXCEPT
                            !.next_attempt_at = IF @ > 0 THEN @ - 1 ELSE 0]]
    /\ UNCHANGED <<e_certs, e2eworker, e2ehist, notE2E>>

E2ENext ==
    \/ E2EImport
    \/ \E w \in Workers : E2EClaim(w)
    \/ \E w \in Workers : E2ESave(w)
    \/ \E w \in Workers : E2EDone(w)
    \/ \E w \in Workers : E2EFresh(w)
    \/ \E w \in Workers : E2EFailed(w)
    \/ E2ETick

\* ------------------------------------------------------------------------
\* main-v3.py killed and started again: claims and outcome writes of the
\* worker threads of successive runs, within STALE_THRESHOLD of each start
\* (doctor_thread finds nothing stale)
\* ------------------------------------------------------------------------
V3RunDomains == 1..NumV3RunDomains

\* worker_thread's find_one_and_update filter and sort on the collection.
R3ClaimCandidates(coll) ==
    {d \in V3RunDomains :
        /\ coll[d].status = "pending"
        /\ \A x \in V3RunDomains :
              coll[x].status = "pending" => coll[d].attempt_count <= coll[x].attempt_count}

R3Init ==
    /\ r_status_coll = [d \in V3RunDomains |-> V3SeedDoc]
    /\ r_pc = [w \in Workers |-> "claim"]
    /\ r_task = [w \in Workers |-> 0]
    /\ r_attempts = [w \in Workers |-> 0]
    /\ r_runs = 1

\* task = status_coll.find_one_and_update(...) by the thread main started as
\* worker_thread(f"Worker-{i}"); without a task it sleeps and tries again.
R3Claim(w) ==
    /\ r_pc[w] = "claim"
    /\ \E d \in R3ClaimCandidates(r_status_coll) :
        /\ r_status_coll' = [r_status_coll EXCEPT ![d] = V3ClaimUpdate(@, w)]
        /\ r_task' = [r_task EXCEPT ![w] = d]
        /\ r_attempts' = [r_attempts EXCEPT ![w] = r_status_coll[d].attempt_count]
    /\ r_pc' = [r_pc EXCEPT ![w] = "claimed"]
    /\ UNCHANGED <<r_runs, notR3>>

\* Fetch and parse succeeded: the update to status completed.
R3Complete(w) ==
    /\ r_pc[w] = "claimed"
    /\ r_status_coll' = [r_status_coll EXCEPT ![r_task[w]] = V3CompletedUpdate(@)]
    /\ r_pc' = [r_pc EXCEPT ![w] = "claim"]
    /\ r_task' = [r_task EXCEPT ![w] = 0]
    /\ r_attempts' = [r_attempts EXCEPT ![w] = 0]
    /\ UNCHANGED <<r_runs, notR3>>

\* Fetch or parse reported an error: attempts += 1; without a retry left the
\* task is written failed at once, otherwise time.sleep(delay_sec) begins.
R3Fail(w) ==
    /\ r_pc[w] = "claimed"
    /\ IF r_attempts[w] + 1 < V3_MAX_RETRIES
       THEN /\ r_attempts' = [r_attempts EXCEPT ![w] = @ + 1]
            /\ r_pc' = [r_pc EXCEPT ![w] = "waiting"]
            /\ UNCHANGED <<r_status_coll, r_task>>
       ELSE /\ r_status_coll' = [r_status_coll EXCEPT
                                    ![r_task[w]] = V3FailureUpdate(@, r_attempts[w] + 1)]
            /\ r_pc' = [r_pc EXCEPT ![w] = "claim"]
            /\ r_task' = [r_task EXCEPT ![w] = 0]
            /\ r_attempts' = [r_attempts EXCEPT ![w] = 0]
    /\ UNCHANGED <<r_runs, notR3>>

\* time.sleep(delay_sec) is over: the task is written back pending with the
\* incremented attempt_count.
R3RetryWrite(w) ==
    /\ r_pc[w] = "waiting"
    /\ r_status_coll' = [r_status_coll EXCEPT
                            ![r_task[w]] = V3FailureUpdate(@, r_attempts[w])]
    /\ r_pc' = [r_pc EXCEPT ![w] = "claim"]
    /\ r_task' = [r_task EXCEPT ![w] = 0]
    /\ r_attempts' = [r_attempts EXCEPT ![w] = 0]
    /\ UNCHANGED <<r_runs, notR3>>

\* The process is killed: every thread ends where it stands, the database
\* keeps what was written.
R3Kill ==
    /\ r_runs < MaxRuns
    /\ \E w \in Workers : r_pc[w] # "killed"
    /\ r_pc' = [w \in Workers |-> "killed"]
    /\ UNCHANGED <<r_status_coll, r_task, r_attempts, r_runs, notR3>>

\* main again: load_csv_if_empty skips the populated collection, and the
\* worker threads are started as Worker-0 .. Worker-(NUM_THREADS-1).
R3Start ==
    /\ \A w \in Workers : r_pc[w] = "killed"
    /\ r_pc' = [w \in Workers |-> "claim"]
    /\ r_task' = [w \in Workers |-> 0]
    /\ r_attempts' = [w \in Workers |-> 0]
    /\ r_runs' = r_runs + 1
    /\ UNCHANGED <<r_status_coll, notR3>>

R3Next ==
    \/ \E w \in Workers : R3Claim(w)
    \/ \E w \in Workers : R3Complete(w)
    \/ \E w \in Workers : R3Fail(w)
    \/ \E w \in Workers : R3RetryWrite(w)
    \/ R3Kill
    \/ R3Start

\* ------------------------------------------------------------------------
\* main-v3.py: the threads main and doctor_thread start (NUM_THREADS is
\* NumWorkers here)
\* ------------------------------------------------------------------------
\* threading.active_count() - 2: the live threads other than main and doctor.
ActiveWorkers == t_workers + t_rescues

ThInit ==
    /\ t_main_pc = "start_doctor"
    /\ t_i = 0
    /\ t_workers = 0
    /\ t_rescues = 0
    /\ t_ended = 0
    /\ t_doctor_pc = "none"
    /\ t_missing = 0

\* main: threading.Thread(target=doctor_thread, daemon=True).start()
ThStartDoctor ==
    /\ t_main_pc = "start_doctor"
    /\ t_doctor_pc' = "check"
    /\ t_main_pc' = "spawn"
    /\ UNCHANGED <<t_i, t_workers, t_rescues, t_ended, t_missing, notTh>>

\* main: one iteration of `for i in range(NUM_THREADS)`, starting Worker-i;
\* after the last one main enters dashboard_loop.
ThSpawnWorker ==
    /\ t_main_pc = "spawn"
    /\ t_workers' = t_workers + 1
    /\ t_i' = t_i + 1
    /\ t_main_pc' = IF t_i + 1 = NumWorkers THEN "dashboard" ELSE "spawn"
    /\ UNCHANGED <<t_rescues, t_ended, t_doctor_pc, t_missing, notTh>>

\* doctor_thread: active = threading.active_count() - 2;
\* `if active < NUM_THREADS: missing = NUM_THREADS - active`, else sleep(5).
ThDoctorCheck ==
    /\ t_doctor_pc = "check"
    /\ IF ActiveWorkers < NumWorkers
       THEN /\ t_missing' = NumWorkers - ActiveWorkers
            /\ t_doctor_pc' = "rescue"
       ELSE UNCHANGED <<t_missing, t_doctor_pc>>
    /\ UNCHANGED <<t_main_pc, t_i, t_workers, t_rescues, t_ended, notTh>>

\* doctor_thread: one iteration of `for i in range(missing)`, starting a
\* Rescue thread; after the last one sleep(5) and the next check.
ThDoctorRescue ==
    /\ t_doctor_pc = "rescue"
    /\ t_rescues' = t_rescues + 1
    /\ t_missing' = t_missing - 1
    /\ t_doctor_pc' = IF t_missing = 1 THEN "check" ELSE "rescue"
    /\ UNCHANGED <<t_main_pc, t_i, t_workers, t_ended, notTh>>

\* A worker thread ends (an exception leaves worker_thread).
ThWorkerEnds ==
    /\ t_ended < MaxEnded
    /\ \/ /\ t_workers > 0
          /\ t_workers' = t_workers - 1
          /\ UNCHANGED t_rescues
       \/ /\ t_rescues > 0
          /\ t_rescues' = t_rescues - 1
          /\ UNCHANGED t_workers
    /\ t_ended' = t_ended + 1
    /\ UNCHANGED <<t_main_pc, t_i, t_doctor_pc, t_missing, notTh>>

ThNext ==
    \/ ThStartDoctor
    \/ ThSpawnWorker
    \/ ThDoctorCheck
    \/ ThDoctorRescue
    \/ ThWorkerEnds

\* ------------------------------------------------------------------------
\* Specifications: one program runs, the other programs' stores stay as seeded
\* ------------------------------------------------------------------------
Init == V1Init /\ V2Init /\ V3Init /\ CsInit /\ E2EInit /\ R3Init /\ ThInit

SpecV1 == Init /\ [][V1Next]_vars

\* reclaimer_loop runs every RECLAIM_INTERVAL seconds until SHUTDOWN, and the
\* clock advances.
FairSpecV1 ==
    /\ SpecV1
    /\ WF_vars(RcScan)
    /\ WF_vars(RcUpdate)
    /\ WF_vars(V1Tick)

\* Every worker thread and main keep running: a fetch returns or raises
\* (its timeouts are finite), and each step of worker_loop and of main's
\* monitor loop is eventually taken.
FairSpecV1Workers ==
    /\ SpecV1
    /\ \A w \in Workers :
          /\ WF_vars(WLoop(w))
          /\ WF_vars(WClaim(w))
          /\ WF_vars(WWake(w))
          /\ WF_vars(WSave(w) \/ WFresh(w))
          /\ WF_vars(WDone(w))
          /\ WF_vars(WFailed(w))
    /\ WF_vars(MainCountPending)
    /\ WF_vars(MainCountWorking)
    /\ WF_vars(MainJoin)

SpecV3 == Init /\ [][V3Next]_vars

SpecV2 == Init /\ [][V2Next]_vars

SpecCerts == Init /\ [][CsNext]_vars

SpecE2E == Init /\ [][E2ENext]_vars

SpecV3Restart == Init /\ [][R3Next]_vars

SpecV3Threads == Init /\ [][ThNext]_vars

\* The operator restarts a stopped program, time passes, and every thread of
\* a running process keeps being scheduled.
FairSpecV2 ==
    /\ SpecV2
    /\ WF_vars(V2Start)
    /\ WF_vars(V2Exit)
    /\ WF_vars(V2Tick)
    /\ \A w \in Workers :
          /\ WF_vars(V2Loop(w))
          /\ WF_vars(V2Claim(w))
          /\ WF_vars(V2Process(w) \/ V2Failed(w))
          /\ WF_vars(V2Completed(w))

\* ------------------------------------------------------------------------
\* main-v1.py: properties
\* ------------------------------------------------------------------------
Holding(w) == pc[w] \in {"claimed", "saved", "failing"}

\* C1: every claim_one_task call that returns a task returns one that was
\* pending with next_attempt_at <= now at that moment and leaves it in-progress
\* under the caller, so two calls return the same task only if it went back to
\* pending in between; a call returns None exactly when no such task exists, so
\* of two workers racing for the only claimable task one gets it and the other
\* gets None.
C1_ClaimIsAtomic ==
    [][\A w \in Workers :
         /\ \A d \in Domains :
              (pc[w] = "claim" /\ pc'[w] = "claimed" /\ task'[w] = d)
              => /\ staging[d].status = "pending"
                 /\ staging[d].next_attempt_at <= 0
                 /\ staging'[d].status = "in-progress"
                 /\ staging'[d].worker_id = w
                 /\ \A v \in Workers \ {w} :
                      ~(Holding(v) /\ task[v] = d /\ staging[d].worker_id = v)
         /\ (pc[w] = "claim" /\ pc'[w] = "sleep")
              => \A d \in Domains :
                   ~(staging[d].status = "pending" /\ staging[d].next_attempt_at <= 0)
      ]_vars

\* C1 witness: two workers raced for the task; one holds it, the other got None.
C1_Witness ==
    \E w, v \in Workers, d \in Domains :
        /\ w # v
        /\ pc[w] = "claimed" /\ task[w] = d
        /\ staging[d].status = "in-progress" /\ staging[d].worker_id = w
        /\ nclaims[d] = 1
        /\ pc[v] = "sleep"

\* C3: once a task is done or failed, no step changes its status.
C3_TerminalIsFinal ==
    [][\A d \in Domains :
         staging[d].status \in {"done", "failed"}
         => staging'[d].status = staging[d].status]_vars

\* C4: a task none of whose fetches succeeded is failed only after exactly
\* MAX_ATTEMPTS successful claims.
C4_FailedAfterMaxAttemptsClaims ==
    \A d \in Domains :
        (staging[d].status = "failed" /\ ~nfetched[d]) => nclaims[d] = MAX_ATTEMPTS

\* C5: once the reclaimer has taken a worker's claim away, that worker's later
\* heartbeat write and mark_task_done call leave the task document unchanged.
C5_ReclaimedWritesAreNoOps ==
    [][\A w \in reclaimed :
         (WHeartbeat(w) \/ WDone(w)) => staging' = staging]_vars

\* C11: compute_backoff_seconds(n) is min(MAX_BACKOFF, INITIAL_BACKOFF * 2^n)
\* for every n >= 0, is non-decreasing in n and never exceeds MAX_BACKOFF; and
\* a mark_task_failed call that records the k-th failure (k < MAX_ATTEMPTS)
\* leaves the task pending with next_attempt_at = now + compute_backoff_seconds(k).
C11_BackoffContract ==
    /\ [](\A n \in 0..MaxBackoffN :
            /\ \/ compute_backoff_seconds(n) = MAX_BACKOFF
                    /\ MAX_BACKOFF <= INITIAL_BACKOFF * 2^n
               \/ compute_backoff_seconds(n) = INITIAL_BACKOFF * 2^n
                    /\ INITIAL_BACKOFF * 2^n <= MAX_BACKOFF
            /\ compute_backoff_seconds(n) <= MAX_BACKOFF
            /\ compute_backoff_seconds(n) <= compute_backoff_seconds(n + 1))
    /\ [][\A w \in Workers :
            WFailed(w) =>
               LET k == fresh[w] + 1
                   d == task[w]
               IN k < MAX_ATTEMPTS =>
                    /\ staging'[d].status = "pending"
                    /\ staging'[d].attempts = k
                    /\ \/ staging'[d].next_attempt_at = MAX_BACKOFF
                            /\ MAX_BACKOFF <= INITIAL_BACKOFF * 2^k
                       \/ staging'[d].next_attempt_at = INITIAL_BACKOFF * 2^k
                            /\ INITIAL_BACKOFF * 2^k <= MAX_BACKOFF
        ]_vars

\* C11 witness: a task just failed for the second time and waits out its backoff.
C11_Witness ==
    \E d \in Domains :
        /\ staging[d].status = "pending"
        /\ staging[d].attempts = 2
        /\ staging[d].next_attempt_at = compute_backoff_seconds(2)
        /\ staging[d].next_attempt_at > 0

\* C12: claim_one_task returns a task only if that task is pending with
\* next_attempt_at <= now at the moment of the claim, returns some task
\* whenever such a task exists, and otherwise returns None and changes nothing.
C12_ClaimableIffPendingAndDue ==
    [][\A w \in Workers :
         WClaim(w) =>
            IF \E d \in Domains :
                  staging[d].status = "pending" /\ staging[d].next_attempt_at <= 0
            THEN /\ pc'[w] = "claimed"
                 /\ task'[w] \in Domains
                 /\ staging[task'[w]].status = "pending"
                 /\ staging[task'[w]].next_attempt_at <= 0
                 /\ staging'[task'[w]].status = "in-progress"
                 /\ \A e \in Domains \ {task'[w]} : staging'[e] = staging[e]
            ELSE /\ pc'[w] = "sleep"
                 /\ task'[w] = task[w]
                 /\ staging' = staging
      ]_vars

\* C12 witness: a task that failed once and sat out its backoff is claimed again.
C12_Witness ==
    \E w \in Workers, d \in Domains :
        /\ pc[w] = "claimed" /\ task[w] = d
        /\ staging[d].status = "in-progress" /\ staging[d].worker_id = w
        /\ staging[d].attempts = 1
        /\ nclaims[d] = 2

\* C14: in every reachable state of main-v1 a task has a worker_id exactly
\* when its status is in-progress.
C14_WorkerIdIffInProgress ==
    \A d \in Domains :
        (staging[d].worker_id # NoWorker) <=> (staging[d].status = "in-progress")

\* C14 witness: the reclaimer has taken a task from a worker that still runs,
\* and the task is pending or failed without a worker_id.
C14_Witness ==
    \E w \in reclaimed :
        /\ pc[w] \in {"claimed", "saved", "failing"}
        /\ staging[task[w]].status \in {"pending", "failed"}
        /\ staging[task[w]].worker_id = NoWorker
        /\ staging[task[w]].attempts > 0

\* C15: the certs collection never holds two records with the same domain:
\* a later fetch of a domain that yields another fingerprint overwrites the
\* domain's record.
C15_OneRecordPerDomain ==
    \A r1, r2 \in certs : r1.domain = r2.domain => r1 = r2

\* C16: two calls of save_certificate_safe with the same domain and the same
\* certificate leave exactly one record for that (domain, fingerprint) pair.
C16_SaveTwiceLeavesOneRecord ==
    \A domain \in CertDomains, fp \in Fps :
        cs_calls[<<domain, fp>>] = 2 =>
            Cardinality({r \in cs_certs :
                            r.domain = domain /\ r.fingerprint_sha256 = fp}) = 1

\* C22: a step of reclaimer_loop that returns a task to pending sets its
\* next_attempt_at to now + compute_backoff_seconds(attempts after the
\* increment), so the task is not claimable in the state the step leaves.
C22_ReclaimAppliesBackoff ==
    [][\A d \in Domains :
          (/\ rc_pc = "update"
           /\ \E r \in rc_docs \ rc_docs' : r[1] = d
           /\ staging'[d] # staging[d]
           /\ staging'[d].status = "pending")
          => /\ staging'[d].next_attempt_at =
                   compute_backoff_seconds(staging'[d].attempts)
             /\ ~ClaimFilter(staging'[d])]_vars

\* C24: mark_task_failed called by worker w after its re-read changes the
\* task only if the task is in-progress with worker_id w at that moment.
C24_FailureReportOnlyUnderOwnLease ==
    [][\A w \in Workers :
          (WFailed(w) /\ staging'[task[w]] # staging[task[w]])
          => /\ staging[task[w]].status = "in-progress"
             /\ staging[task[w]].worker_id = w]_vars

\* C27: once SHUTDOWN is set a worker at its loop head never goes on to
\* another claim (so it makes at most the one claim it had already decided
\* on); the outcome write that ends a claim leaves the task done, pending or
\* failed; a worker that has exited holds no task in-progress; main has
\* exited only when every worker has returned; and after SHUTDOWN main does
\* exit (in runs within the claim bound MaxClaims of this model).
C27_CooperativeShutdown ==
    /\ [][\A w \in Workers :
             /\ (SHUTDOWN /\ pc[w] = "loop") => pc'[w] \in {"loop", "exited"}
             /\ (Holding(w) /\ pc'[w] = "loop")
                => staging'[task[w]].status \in {"done", "pending", "failed"}]_vars
    /\ [](\A w \in Workers :
             pc[w] = "exited"
             => /\ SHUTDOWN
                /\ \A d \in Domains :
                      ~(staging[d].status = "in-progress" /\ staging[d].worker_id = w))
    /\ [](main_pc = "exited" => \A w \in Workers : pc[w] \in {"exited", "dead"})
    /\ SHUTDOWN ~> (main_pc = "exited" \/ \E d \in Domains : nclaims[d] >= MaxClaims)

\* SHUTDOWN came while work remained: main and every worker have exited, and
\* a task that was claimed and failed is pending, held by no worker.
C27_Witness ==
    /\ main_pc = "exited"
    /\ \A w \in Workers : pc[w] = "exited"
    /\ \E d \in Domains :
          /\ staging[d].status = "pending"
          /\ staging[d].attempts > 0
          /\ nclaims[d] > 0

\* C31: a task's attempts counter is at most the number of claims of the
\* task and at most MAX_ATTEMPTS.
C31_AttemptsBoundedByClaims ==
    \A d \in Domains :
        /\ staging[d].attempts <= nclaims[d]
        /\ staging[d].attempts <= MAX_ATTEMPTS

\* C35: a write of the heartbeat thread of worker w leaves every task's
\* status, attempts, worker_id and next_attempt_at as they are, touches no
\* task but the one w claimed, and changes that task's last_heartbeat only
\* if the task is in-progress with worker_id w.
C35_HeartbeatTouchesOnlyOwnLease ==
    [][\A w \in Workers :
          WHeartbeat(w) =>
             /\ \A d \in Domains :
                   /\ staging'[d].status = staging[d].status
                   /\ staging'[d].attempts = staging[d].attempts
                   /\ staging'[d].worker_id = staging[d].worker_id
                   /\ staging'[d].next_attempt_at = staging[d].next_attempt_at
                   /\ d # task[w] => staging'[d] = staging[d]
             /\ staging'[task[w]].last_heartbeat # staging[task[w]].last_heartbeat
                => /\ staging[task[w]].status = "in-progress"
                   /\ staging[task[w]].worker_id = w
                   /\ staging'[task[w]].last_heartbeat = 0]_vars

\* Worker w still runs its heartbeat thread for a task that was reclaimed
\* and is now in-progress under another worker, whose lease has aged.
C35_Witness ==
    \E w \in Workers :
        /\ Holding(w)
        /\ w \in reclaimed
        /\ staging[task[w]].status = "in-progress"
        /\ staging[task[w]].worker_id # w
        /\ staging[task[w]].last_heartbeat > 0

\* Task d is in-progress under worker w, which has died.
HeldByDead(d, w) ==
    /\ pc[w] = "dead" /\ task[w] = d
    /\ staging[d].status = "in-progress" /\ staging[d].worker_id = w

\* C6: while the reclaimer runs, a task in-progress under a dead worker is
\* eventually moved out of that lease, and the reclaimer moves it to pending
\* with attempts incremented by 1 when attempts + 1 < MAX_ATTEMPTS and to
\* failed otherwise.
C6_DeadLeaseIsReclaimed ==
    /\ \A d \in Domains, w \in Workers :
          HeldByDead(d, w) ~> (~HeldByDead(d, w) \/ rc_pc = "exited")
    /\ [][\A d \in Domains, w \in Workers :
            (HeldByDead(d, w) /\ RcUpdate /\ staging'[d] # staging[d]) =>
               IF staging[d].attempts + 1 < MAX_ATTEMPTS
               THEN /\ staging'[d].status = "pending"
                    /\ staging'[d].attempts = staging[d].attempts + 1
               ELSE staging'[d].status = "failed"
        ]_vars

\* ------------------------------------------------------------------------
\* main-v3.py: properties
\* ------------------------------------------------------------------------
\* Worker w of main-v3 is between its successful claim and its outcome write.
InFlight3(w) == w3_pc[w] \in {"claimed", "fetching", "parsing", "inserted"}

\* C2: in every reachable state of main-v3 at most one worker thread is
\* between its successful claim and its final outcome write for a given domain.
C2_OneWorkerPerDomain ==
    \A d \in Domains :
        Cardinality({w \in Workers : InFlight3(w) /\ w3_task[w] = d}) <= 1

\* C7: every domain whose main-v3 task has status completed has exactly one
\* record in certs_coll, however often it was claimed, retried or reset.
C7_CompletedHasOneRecord ==
    \A d \in Domains :
        status_coll[d].status = "completed" => certs_coll[d] = 1

\* A completed domain for which a second insert was attempted and rejected.
C7_Witness ==
    \E d \in Domains : status_coll[d].status = "completed" /\ d \in dup_seen

\* C8: whenever dashboard_loop sets shutdown_event because both of its counts
\* were zero, no task has status pending or processing at that moment.
C8_ShutdownMeansNoWorkLeft ==
    [][(DashCountProcessing /\ dash_pc' = "return") =>
          \A d \in Domains : status_coll[d].status \notin {"pending", "processing"}]_vars

\* C9: once an operator interrupt has set shutdown_event, the main-v3 process
\* has not exited while a worker was between claim and outcome write, and no
\* task is left in status processing at exit.
C9_NoInFlightAtExit ==
    (interrupted /\ dash_pc = "exited") =>
        /\ \A w \in Workers : ~(w3_pc[w] = "killed" /\ w3_task[w] # 0)
        /\ \A d \in Domains : status_coll[d].status # "processing"


\* C20: a step of doctor_thread's reset loop changes a task only if the task
\* is, at that moment, still in status processing with a stale last_heartbeat:
\* a task its worker heartbeated, completed, failed or released since the
\* doctor's find is left as it is.
C20_DoctorResetsOnlyStaleProcessing ==
    [][\A d \in Domains :
          (/\ doctor_pc = "reset"
           /\ d \in doctor_stale
           /\ d \notin doctor_stale'
           /\ status_coll'[d] # status_coll[d])
          => V3StaleFilter(status_coll[d])]_vars

\* C21: a reset by doctor_thread counts as an attempt: the step that changes
\* a task adds 1 to its attempt_count, clears worker_id, and leaves the task
\* failed rather than pending once attempt_count has reached MAX_RETRIES.
C21_DoctorResetCountsAsAttempt ==
    [][\A d \in Domains :
          (/\ doctor_pc = "reset"
           /\ d \in doctor_stale
           /\ d \notin doctor_stale'
           /\ status_coll'[d] # status_coll[d])
          => /\ status_coll'[d].attempt_count = status_coll[d].attempt_count + 1
             /\ status_coll'[d].worker_id = NoWorker
             /\ status_coll'[d].status =
                   IF status_coll'[d].attempt_count >= V3_MAX_RETRIES
                   THEN "failed" ELSE "pending"]_vars

\* C23: a heartbeat write of worker w changes a task only if the task is in
\* status processing with worker_id w at that moment.
C23_HeartbeatOnlyUnderOwnLease ==
    [][\A w \in Workers :
          (/\ w3_pc[w] \in {"claimed", "fetching"}
           /\ w3_pc'[w] \in {"fetching", "parsing"}
           /\ w3_pc'[w] # w3_pc[w]
           /\ status_coll'[w3_task[w]] # status_coll[w3_task[w]])
          => /\ status_coll[w3_task[w]].status = "processing"
             /\ status_coll[w3_task[w]].worker_id = w]_vars

\* C33: no step lowers a task's attempt_count.
C33_AttemptCountNeverDecreases ==
    [][\A d \in Domains :
          status_coll'[d].attempt_count >= status_coll[d].attempt_count]_vars

\* C19: no worker id is recorded on two tasks in status processing at once,
\* also after the program was killed and started again.
C19_OneProcessingTaskPerWorkerId ==
    \A w \in Workers :
        Cardinality({d \in V3RunDomains :
                        /\ r_status_coll[d].status = "processing"
                        /\ r_status_coll[d].worker_id = w}) <= 1

\* C26: a worker that waits out a retry delay has already recorded the failed
\* attempt: while it waits, the task is pending in the store with the
\* incremented attempt_count; and at no moment after a kill does the store
\* hold a smaller attempt_count than the killed worker had counted.
C26_OutcomeRecordedBeforeRetryDelay ==
    \A w \in Workers :
        (r_task[w] # 0 /\ r_attempts[w] > 0 /\ r_pc[w] \in {"waiting", "killed"})
        => r_status_coll[r_task[w]].attempt_count >= r_attempts[w]

\* C28: the number of live worker threads, Worker-i and Rescue together,
\* never exceeds NUM_THREADS.
C28_AtMostNumThreadsWorkers ==
    ActiveWorkers <= NumWorkers

\* ------------------------------------------------------------------------
\* main-v2.py: properties
\* ------------------------------------------------------------------------
\* C13: claim_work adds exactly 1 to attempt_count in the step that sets
\* status processing and worker_id, a seeded task starts at 0, and no other
\* step of main-v2 changes attempt_count.
C13_AttemptCountCountsClaims ==
    [][\A d \in V2Domains :
         IF d \notin DOMAIN status_collection
         THEN d \in DOMAIN status_collection' =>
                 status_collection'[d].attempt_count = 0
         ELSE IF \E w \in Workers :
                    V2Claim(w) /\ v2_pc'[w] = "claimed" /\ v2_task'[w] = d
              THEN /\ status_collection'[d].attempt_count =
                          status_collection[d].attempt_count + 1
                   /\ status_collection'[d].status = "processing"
                   /\ \E w \in Workers :
                        /\ v2_pc[w] = "claim" /\ v2_task'[w] = d
                        /\ status_collection'[d].worker_id = w
              ELSE status_collection'[d].attempt_count =
                      status_collection[d].attempt_count
      ]_vars

\* C13 witness: after a crash or signal a task is processing under its
\* second claim.
C13_Witness ==
    \E d \in DOMAIN status_collection :
        /\ stops > 0
        /\ status_collection[d].status = "processing"
        /\ status_collection[d].attempt_count = 2
        /\ status_collection[d].last_updated = 0
        /\ \E w \in Workers : v2_pc[w] = "claimed" /\ v2_task[w] = d

\* C29: the task a claim_work call claims is pending with attempt_count <
\* MAX_RETRIES before the call and is first among all such tasks in the order
\* (attempt_count, domain); the call returns no task only when there is none.
C29_ClaimOrderIsDeterministic ==
    [][\A w \in Workers :
          V2Claim(w) =>
             LET match == {e \in DOMAIN status_collection :
                              /\ status_collection[e].status = "pending"
                              /\ status_collection[e].attempt_count < V2_MAX_RETRIES}
             IN IF v2_pc'[w] = "claimed"
                THEN /\ v2_task'[w] \in match
                     /\ \A e \in match \ {v2_task'[w]} :
                           \/ status_collection[v2_task'[w]].attempt_count
                                 < status_collection[e].attempt_count
                           \/ /\ status_collection[v2_task'[w]].attempt_count
                                    = status_collection[e].attempt_count
                              /\ v2_task'[w] < e
                     /\ \A e \in DOMAIN status_collection \ {v2_task'[w]} :
                           status_collection'[e] = status_collection[e]
                ELSE match = {} /\ status_collection' = status_collection]_vars

\* Task 2 has just been claimed for the first time while task 1, earlier in
\* domain order, was pending after a failed attempt: the smaller
\* attempt_count decided.
C29_Witness ==
    /\ DOMAIN status_collection = V2Domains
    /\ status_collection[1].status = "pending"
    /\ status_collection[1].attempt_count = 1
    /\ status_collection[1].last_updated > 0
    /\ status_collection[2].status = "processing"
    /\ status_collection[2].attempt_count = 1
    /\ status_collection[2].last_updated = 0
    /\ \E w \in Workers : v2_pc[w] = "claimed" /\ v2_task[w] = 2

\* C30: a worker leaves its loop only after shutdown has been requested; a
\* claim_work call that returns no task leaves the worker alive, to claim
\* again.
C30_EmptyClaimKeepsWorkerAlive ==
    [][\A w \in Workers :
          (v2_pc[w] # "finished" /\ v2_pc'[w] = "finished")
          => shutdown_requested]_vars

\* C32: no task is pending with attempt_count >= MAX_RETRIES: every pending
\* task matches claim_work's filter.
C32_PendingIsClaimable ==
    \A d \in DOMAIN status_collection :
        status_collection[d].status = "pending" => V2ClaimFilter(status_collection[d])

\* C10: across crashes and restarts of main-v2, with workers scheduled
\* fairly, every seeded domain eventually has status completed or failed.
C10_EveryDomainTerminates ==
    <>(/\ DOMAIN status_collection = V2Domains
       /\ \A d \in V2Domains : status_collection[d].status \in {"completed", "failed"})

\* ------------------------------------------------------------------------
\* main-v1.py end to end: properties
\* ------------------------------------------------------------------------

\* C17: a call of import_csv_into_staging (drop_and_import False) that finds
\* the staging collection non-empty is a no-op: the same tasks exist after it,
\* and each keeps its status, attempts and next_attempt_at.
C17_ReseedingIsNoOp ==
    [][(e_imports' = e_imports + 1 /\ DOMAIN e_staging # {}) =>
          /\ DOMAIN e_staging' = DOMAIN e_staging
          /\ Cardinality(DOMAIN e_staging') = Cardinality(RunDomains)
          /\ \A d \in DOMAIN e_staging :
                /\ e_staging'[d].status = e_staging[d].status
                /\ e_staging'[d].attempts = e_staging[d].attempts
                /\ e_staging'[d].next_attempt_at = e_staging[d].next_attempt_at]_vars

\* A second import has run over a collection in which every task had left
\* its seeded state, and a task is still waiting out a backoff delay.
C17_Witness ==
    /\ e_imports = 2
    /\ e_touched = Cardinality(RunDomains)
    /\ \E d \in DOMAIN e_staging :
          /\ e_staging[d].status = "pending"
          /\ e_staging[d].attempts > 0
          /\ e_staging[d].next_attempt_at > 0

\* The run in which every fetch of a.example (task 1) failed and the fetch of
\* b.example (task 2) succeeded on its second attempt has ended.
E2EScenarioDone ==
    /\ DOMAIN e_staging = RunDomains
    /\ e_staging[1].status = "failed"
    /\ e_staging[2].status = "done"
    /\ e_staging[2].attempts = 1

C25_ParseFailureIsFailure ==
    [][\A w \in Workers :
          /\ (E2ESave(w) /\ e_parsed'[w] = "none") => e_certs' = e_certs
          /\ E2EDone(w) => e_parsed[w] # "none"]_vars

\* C34: a task with status done has a record of its domain in the certs
\* collection, also when another domain served the same certificate.
C34_DoneHasCertificateRecord ==
    \A d \in DOMAIN e_staging :
        e_staging[d].status = "done" => \E r \in e_certs : r.domain = d

====
